---------------------------- MODULE Spec2Model ----------------------------
(***************************************************************************)
(* A model of js/script.js: the contact form's validation and submission   *)
(* controller (validateField, handleFormSubmit, showFormStatus and the     *)
(* input / blur / submit event wiring), and the mobile menu (toggle, close *)
(* triggers, debounced resize handler, Tab trap).  The two share no state: *)
(* the form is explored by Spec and the menu by SpecMenu.                  *)
(*                                                                         *)
(* The page's markup is not part of the script: the label of the submit    *)
(* control and the width of the window at page load are chosen by Init;    *)
(* no input has a value in the markup.                                     *)
(*                                                                         *)
(* A text value is a sequence of characters, one UTF-16 code unit each, so *)
(* that trim(), .length and the e-mail regular expression are computed     *)
(* character by character.  A character is a one-character string, or     *)
(* "<U+XXXX>" for a code point that cannot be written in a string.         *)
(* Messages written to the page are TLA+ strings.                          *)
(*                                                                         *)
(* Time is counted in seconds: the status banner's timer is 5000 ms and    *)
(* the simulated submission settles after 2000 ms.  The hide-status timers *)
(* are kept as the sequence of their remaining times, oldest first: each   *)
(* runs its own callback, also when two are due together.                  *)
(*                                                                         *)
(* The menu's resize timer is counted in milliseconds.  The scroll         *)
(* position set by handleSmoothScroll is not part of the state.            *)
(*                                                                         *)
(* lastEvent, errorValue, statusAge, loadLabel, menuEvent and sinceResize  *)
(* observe the run and are read by no action of the program.               *)
(***************************************************************************)
EXTENDS Integers, Sequences, FiniteSets, TLC

VARIABLES
    value,        \* field.value of each form input
    errorText,    \* textContent of each <field>-error element
    fieldError,   \* whether the input's classList holds 'error'
    status,       \* #form-status: [text, class]
    statusTimers, \* remaining seconds of the pending hide-status timers, in order
    button,       \* .form-submit: [loading, disabled, text]
    pending,      \* suspended handleFormSubmit calls: [originalText, remaining]
    lastEvent,    \* observer: the event handled last, [op, field, ok]
    errorValue,   \* observer: field.value when the shown error was produced
    statusAge,    \* observer: seconds since the visible status was shown
    defaultValue, \* field.defaultValue of each form input (the markup's value)
    loadLabel,    \* observer: submitButton.textContent at page load
    ariaExpanded, \* navToggle's aria-expanded attribute, a string
    menuActive,   \* whether navMenu's classList holds 'active'
    bodyOverflow, \* document.body.style.overflow
    resizeTimers, \* remaining milliseconds of the pending resize timers
    innerWidth,   \* window.innerWidth
    focus,        \* document.activeElement: [kind, index]
    menuEvent,    \* observer: the menu event handled last
    sinceResize   \* observer: milliseconds since the last 'resize' event

formVars == <<value, errorText, fieldError, status, statusTimers, button, pending,
              lastEvent, errorValue, statusAge>>

menuVars == <<ariaExpanded, menuActive, bodyOverflow, resizeTimers, innerWidth,
              focus, menuEvent, sinceResize>>

\* What the markup fixes: no handler of the script writes it.
markup == <<defaultValue, loadLabel>>

vars == <<formVars, menuVars, markup>>

\* The program's variables (the page), without the two observers.
page == <<value, errorText, fieldError, status, statusTimers, button, pending>>

---------------------------------------------------------------------------
\* Bounds of the model.

\* Longest string of the exhaustive input set of the validation specification.
MaxLen == 5
\* Longest run of letters in the padded inputs (a message needs 10).
MaxBody == 11
\* Submissions that may be suspended at once before the model stops taking more.
MaxInFlight == 2
\* Links of the menu (navMenu.querySelectorAll('a[href]')).
NumLinks == 3
\* Milliseconds that pass in one step of the menu's clock.
TickMs == 125
\* Resize timers that may be pending at once before the model stops taking more.
MaxResizeTimers == 2
\* Hide-status timers, pending or still to be started by a submission in
\* flight, before the model stops taking submit requests.
MaxStatusTimers == 3

---------------------------------------------------------------------------
\* Program constants.

\* setTimeout(..., 5000) of showFormStatus, in seconds.
StatusTTL == 5
\* setTimeout(..., 2000) of simulateFormSubmission, in seconds.
SubmitDelay == 2
\* value.length < 2 of the name rule.
NameMinLength == 2
\* value.length < 10 of the message rule.
MessageMinLength == 10
\* setTimeout(..., 250) of the resize handler, in milliseconds.
ResizeDelay == 250
\* window.innerWidth >= 768 of the resize handler.
DesktopWidth == 768

\* formInputs, in document order.
FieldOrder == <<"name", "email", "message">>
Fields == {FieldOrder[i] : i \in 1..Len(FieldOrder)}

RequiredSuffix == " is required."
EmailFormatMsg == "Please enter a valid email address."
NameLengthMsg == "Name must be at least 2 characters long."
MessageLengthMsg == "Message must be at least 10 characters long."
RejectMsg == "Please correct the errors above."
SuccessMsg == "Thank you! Your message has been sent successfully."
FailureMsg == "Sorry, there was an error sending your message. Please try again."
PendingLabel == "Sending..."
StatusHidden == "form-status"
StatusClass(type) == "form-status " \o type

---------------------------------------------------------------------------
\* Strings.

\* The characters String.prototype.trim() strips and \s matches: the
\* ECMAScript WhiteSpace and LineTerminator code points.  In order: SPACE,
\* TAB, LF, FF, CR, then VT (U+000B), NO-BREAK SPACE (U+00A0), OGHAM SPACE
\* MARK (U+1680) and ZERO WIDTH NO-BREAK SPACE (U+FEFF) written as the
\* characters themselves, then the code points that no string can hold.
WhiteSpace ==
    {" ", "\t", "\n", "\f", "\r", "", " ", " ", "﻿",
     "<U+2000>", "<U+2001>", "<U+2002>", "<U+2003>", "<U+2004>", "<U+2005>",
     "<U+2006>", "<U+2007>", "<U+2008>", "<U+2009>", "<U+200A>",
     "<U+2028>", "<U+2029>", "<U+202F>", "<U+205F>", "<U+3000>"}

RECURSIVE trimStart(_)
trimStart(s) ==
    IF s # << >> /\ Head(s) \in WhiteSpace THEN trimStart(Tail(s)) ELSE s

RECURSIVE trimEnd(_)
trimEnd(s) ==
    IF s # << >> /\ s[Len(s)] \in WhiteSpace
    THEN trimEnd(SubSeq(s, 1, Len(s) - 1))
    ELSE s

trim(s) == trimEnd(trimStart(s))

\* /^[^\s@]+@[^\s@]+\.[^\s@]+$/ as an automaton.  State 0: start of the local
\* part; 1: inside it; 2: just after '@'; 3: inside the domain; 4: just after
\* the '.'; 5: inside the last part (accepting).  '.' is itself in [^\s@].
EmailRegexStep(q, c) ==
    LET plain == c \notin WhiteSpace /\ c # "@"
    IN  CASE q = 0 -> IF plain THEN {1} ELSE {}
          [] q = 1 -> (IF plain THEN {1} ELSE {}) \cup (IF c = "@" THEN {2} ELSE {})
          [] q = 2 -> IF plain THEN {3} ELSE {}
          [] q = 3 -> (IF plain THEN {3} ELSE {}) \cup (IF c = "." THEN {4} ELSE {})
          [] q = 4 -> IF plain THEN {5} ELSE {}
          [] q = 5 -> IF plain THEN {5} ELSE {}
          [] OTHER -> {}

RECURSIVE EmailRegexRun(_, _)
EmailRegexRun(Q, s) ==
    IF s = << >> THEN Q
    ELSE EmailRegexRun(UNION {EmailRegexStep(q, Head(s)) : q \in Q}, Tail(s))

\* Mutant: the pattern without its '\.' part, /^[^\s@]+@[^\s@]+$/.
isValidEmail_NoDot(email) == EmailRegexRun({0}, email) \cap {3, 5} # {}

isValidEmail(email) == 5 \in EmailRegexRun({0}, email)

\* labels[fieldName] || fieldName, labels being an object literal: a name
\* that is not one of its keys is still looked up on Object.prototype, and
\* what is found there is truthy and is put into the message as a string.
ObjectPrototypeMethods ==
    {"hasOwnProperty", "isPrototypeOf", "propertyIsEnumerable",
     "toLocaleString", "toString", "valueOf",
     "__defineGetter__", "__defineSetter__",
     "__lookupGetter__", "__lookupSetter__"}

getFieldLabel(fieldName) ==
    CASE fieldName = "name" -> "Name"
      [] fieldName = "email" -> "Email"
      [] fieldName = "message" -> "Message"
      [] fieldName = "constructor" -> "function Object() { [native code] }"
      [] fieldName = "__proto__" -> "[object Object]"
      [] fieldName \in ObjectPrototypeMethods ->
            "function " \o fieldName \o "() { [native code] }"
      [] OTHER -> fieldName

---------------------------------------------------------------------------
\* Field validation.  The error display of the fields is a record
\* [text, cls]: the error elements' textContent and the inputs' 'error' class.

showFieldError(field, message, disp) ==
    [text |-> [disp.text EXCEPT ![field] = message],
     cls  |-> [disp.cls EXCEPT ![field] = TRUE]]

\* Mutant: every field's error is cleared, not only this field's.
clearFieldError_AllFields(field, disp) ==
    [text |-> [f \in DOMAIN disp.text |-> ""],
     cls  |-> [f \in DOMAIN disp.cls |-> FALSE]]

clearFieldError(field, disp) ==
    [text |-> [disp.text EXCEPT ![field] = ""],
     cls  |-> [disp.cls EXCEPT ![field] = FALSE]]

\* Mutant: the field-specific rule is tried before the required rule.
fieldErrorMessage_SpecificFirst(fieldName, raw) ==
    LET v == trim(raw)
    IN  IF fieldName = "email" /\ ~isValidEmail(v) THEN EmailFormatMsg
        ELSE IF fieldName = "name" /\ Len(v) < NameMinLength THEN NameLengthMsg
        ELSE IF fieldName = "message" /\ Len(v) < MessageMinLength
             THEN MessageLengthMsg
        ELSE IF v = << >> THEN getFieldLabel(fieldName) \o RequiredSuffix
        ELSE ""

\* The errorMessage validateField computes for a field holding raw.
fieldErrorMessage(fieldName, raw) ==
    LET v == trim(raw)
    IN  IF v = << >> THEN getFieldLabel(fieldName) \o RequiredSuffix
        ELSE CASE fieldName = "email" ->
                    IF ~isValidEmail(v) THEN EmailFormatMsg ELSE ""
               [] fieldName = "name" ->
                    IF Len(v) < NameMinLength THEN NameLengthMsg ELSE ""
               [] fieldName = "message" ->
                    IF Len(v) < MessageMinLength THEN MessageLengthMsg ELSE ""
               [] OTHER -> ""

\* validateField(field): [ok, disp], the value returned and the display left.
validateField(field, vals, disp) ==
    LET errorMessage == fieldErrorMessage(field, vals[field])
        cleared == clearFieldError(field, disp)
    IN  IF errorMessage # ""
        THEN [ok |-> FALSE, disp |-> showFieldError(field, errorMessage, cleared)]
        ELSE [ok |-> TRUE, disp |-> cleared]

\* The forEach of handleFormSubmit over formInputs from index i on, with
\* isValid and the display so far.
RECURSIVE validateFrom(_, _, _, _)
validateFrom(i, vals, isValid, disp) ==
    IF i > Len(FieldOrder) THEN [ok |-> isValid, disp |-> disp]
    ELSE LET r == validateField(FieldOrder[i], vals, disp)
         IN  validateFrom(i + 1, vals, isValid /\ r.ok, r.disp)

\* Mutant: isValid is overwritten by each result, so the last field decides.
validateAll_LastResultOnly(vals, disp) ==
    LET all == validateFrom(1, vals, TRUE, disp)
        last == FieldOrder[Len(FieldOrder)]
    IN  [ok |-> validateField(last, vals, all.disp).ok, disp |-> all.disp]

\* Mutant: the pass stops at the first invalid field.
RECURSIVE validateUntilInvalid(_, _, _)
validateUntilInvalid(i, vals, disp) ==
    IF i > Len(FieldOrder) THEN [ok |-> TRUE, disp |-> disp]
    ELSE LET r == validateField(FieldOrder[i], vals, disp)
         IN  IF r.ok THEN validateUntilInvalid(i + 1, vals, r.disp)
             ELSE [ok |-> FALSE, disp |-> r.disp]

validateAll_ShortCircuit(vals, disp) == validateUntilInvalid(1, vals, disp)

validateAll(vals, disp) == validateFrom(1, vals, TRUE, disp)


---------------------------------------------------------------------------
\* The status banner and the submit control.

\* showFormStatus(message, type): the banner it leaves.
showFormStatus(message, type) == [text |-> message, class |-> StatusClass(type)]

\* Mutant: showFormStatus starts no timer.
timersAfterShow_NoTimer(timers) == timers

\* showFormStatus: the pending hide-status timers once it has started its
\* own; it cancels none.
timersAfterShow(timers) == Append(timers, StatusTTL)

\* Mutant: the control is relabelled but not disabled.
busyButton_NotDisabled(b) ==
    [loading |-> TRUE, disabled |-> FALSE, text |-> PendingLabel]

\* Lines 207-209: the loading state of the submit control.
busyButton(b) == [loading |-> TRUE, disabled |-> TRUE, text |-> PendingLabel]

\* Mutant: the 'loading' class is not removed.
resetButton_KeepsLoading(b, originalText) ==
    [loading |-> b.loading, disabled |-> FALSE, text |-> originalText]

\* Mutant: the label is not put back.
resetButton_KeepsLabel(b, originalText) ==
    [loading |-> FALSE, disabled |-> FALSE, text |-> b.text]

\* Lines 223-225: the finally block.
resetButton(b, originalText) ==
    [loading |-> FALSE, disabled |-> FALSE, text |-> originalText]

\* Mutant: the control is restored at the end of the try block only.
buttonAfterSettle_OnSuccessOnly(resolved, b, originalText) ==
    IF resolved THEN [loading |-> FALSE, disabled |-> FALSE, text |-> originalText]
    ELSE b

\* try / catch / finally of handleFormSubmit once the awaited promise settles:
\* the finally block runs whether it resolved or rejected.
buttonAfterSettle(resolved, b, originalText) == resetButton(b, originalText)

\* contactForm.reset(): every control takes its default value again; no
\* 'input' event is fired.
resetForm(vals) == [f \in DOMAIN vals |-> defaultValue[f]]

\* Mutant: the form is never reset.
valuesAfterSettle_NoReset(resolved, vals) == vals

\* Mutant: the form is reset in the finally block.
valuesAfterSettle_AlwaysReset(resolved, vals) == resetForm(vals)

\* contactForm.reset() runs only in the try block, after the await.
valuesAfterSettle(resolved, vals) ==
    IF resolved THEN resetForm(vals) ELSE vals

statusAfterSettle(resolved) ==
    IF resolved THEN showFormStatus(SuccessMsg, "success")
    ELSE showFormStatus(FailureMsg, "error")

---------------------------------------------------------------------------
\* The values a user types in the controller specification: for each field
\* the empty value and a valid one, and for the name an invalid one, 'A'
\* followed by an ideographic space (U+3000), too short once trimmed.  The
\* valid email is 'a@b.c' after a form feed.

NameValues == { << >>, <<"A", "<U+3000>">>, <<"A", "l">> }
EmailValues == { << >>, <<"\f", "a", "@", "b", ".", "c">> }
MessageValues ==
    { << >>, <<"h", "e", "l", "l", "o", " ", "t", "h", "e", "r">> }
TypedValues(f) ==
    CASE f = "name" -> NameValues
      [] f = "email" -> EmailValues
      [] OTHER -> MessageValues

\* errorValue of a field that shows no error.
NoValue == <<"(none)">>

Event(op, field, ok) == [op |-> op, field |-> field, ok |-> ok]

Display == [text |-> errorText, cls |-> fieldError]

\* errorValue after validateField ran on the fields of S and left display d.
ErrorValueAfter(S, d) ==
    [f \in Fields |->
        IF f \in S THEN (IF d.text[f] # "" THEN value[f] ELSE NoValue)
        ELSE errorValue[f]]

---------------------------------------------------------------------------
\* The mobile menu.  Its display is a record [expanded, active, overflow]:
\* aria-expanded of the toggle, the 'active' class of the menu and the
\* overflow style of the body.

MenuDisplay ==
    [expanded |-> ariaExpanded, active |-> menuActive, overflow |-> bodyOverflow]

\* setAttribute stores the string of the boolean it is given.
BoolString(b) == IF b THEN "true" ELSE "false"

toggleMobileMenu(m) ==
    LET isExpanded == m.expanded = "true"
    IN  [expanded |-> BoolString(~isExpanded),
         active   |-> ~m.active,
         overflow |-> IF ~isExpanded THEN "hidden" ELSE ""]

\* Mutant: the body's scroll lock is not released.
closeMobileMenu_KeepsScrollLock(m) ==
    [expanded |-> "false", active |-> FALSE, overflow |-> m.overflow]

closeMobileMenu(m) == [expanded |-> "false", active |-> FALSE, overflow |-> ""]

\* The resize timer's callback.
resizeCheck(width, m) ==
    IF width >= DesktopWidth /\ m.active THEN closeMobileMenu(m) ELSE m

\* Mutant: the pending timer is not cleared.
clearResizeTimer_Noop(timers) == timers

\* clearTimeout(resizeTimer): resizeTimer names the timer started last, the
\* one with the most time left.
clearResizeTimer(timers) ==
    timers \ {t \in timers : \A u \in timers : u <= t}

LinkFocus(i) == [kind |-> "link", index |-> i]
ToggleFocus == [kind |-> "toggle", index |-> 0]
OutsideFocus == [kind |-> "outside", index |-> 0]
\* The focus on the i-th form input.
FieldFocus(i) == [kind |-> "field", index |-> i]
FocusTargets ==
    {LinkFocus(i) : i \in 1..NumLinks} \cup {ToggleFocus, OutsideFocus}
    \cup {FieldFocus(i) : i \in 1..Len(FieldOrder)}

\* The browser's own move on Tab / Shift+Tab from link i: the next or the
\* previous focusable element, which past either end of the menu's links is
\* an element outside the menu.
defaultTabMove(shiftKey, i) ==
    IF shiftKey
    THEN (IF i = 1 THEN OutsideFocus ELSE LinkFocus(i - 1))
    ELSE (IF i = NumLinks THEN OutsideFocus ELSE LinkFocus(i + 1))

\* Mutant: Tab on the last link is left to the browser.
handleTabNavigation_NoForwardWrap(shiftKey, i) ==
    IF shiftKey /\ i = 1 THEN LinkFocus(NumLinks) ELSE defaultTabMove(shiftKey, i)

\* handleTabNavigation with link i focused: where the focus is afterwards.
handleTabNavigation(shiftKey, i) ==
    LET firstElement == 1
        lastElement == NumLinks
    IN  IF shiftKey
        THEN (IF i = firstElement THEN LinkFocus(lastElement)
              ELSE defaultTabMove(shiftKey, i))
        ELSE (IF i = lastElement THEN LinkFocus(firstElement)
              ELSE defaultTabMove(shiftKey, i))

Widths == {DesktopWidth - 1, DesktopWidth, DesktopWidth + 256}

MenuEvent(op, wasActive, shiftKey) ==
    [op |-> op, wasActive |-> wasActive, shiftKey |-> shiftKey]

\* The menu's attribute, class and scroll lock are written together.
SetMenu(m) ==
    /\ ariaExpanded' = m.expanded
    /\ menuActive' = m.active
    /\ bodyOverflow' = m.overflow

\* The menu at page load: closed, the window of any width.
MenuInit ==
    /\ ariaExpanded = "false"
    /\ menuActive = FALSE
    /\ bodyOverflow = ""
    /\ resizeTimers = {}
    /\ innerWidth \in Widths
    /\ focus = OutsideFocus
    /\ menuEvent = MenuEvent("load", FALSE, FALSE)
    /\ sinceResize = 0

---------------------------------------------------------------------------
\* Initial state: the page after init().

\* No input has a value in the markup: reset() leaves every field empty.
EmptyDefaults == [f \in Fields |-> << >>]

\* The markups the model loads: the plain page, and the page whose submit
\* control has another label.
Markups ==
    { [label |-> "Send Message", defaults |-> EmptyDefaults],
      [label |-> "Send", defaults |-> EmptyDefaults] }

\* The markup of the plain page.
PlainMarkup ==
    /\ defaultValue = EmptyDefaults
    /\ loadLabel = "Send Message"

Init ==
    /\ \E m \in Markups : defaultValue = m.defaults /\ loadLabel = m.label
    /\ value = defaultValue
    /\ errorText = [f \in Fields |-> ""]
    /\ fieldError = [f \in Fields |-> FALSE]
    /\ status = [text |-> "", class |-> StatusHidden]
    /\ statusTimers = << >>
    /\ button = [loading |-> FALSE, disabled |-> FALSE, text |-> loadLabel]
    /\ pending = << >>
    /\ lastEvent = Event("load", "none", TRUE)
    /\ errorValue = [f \in Fields |-> NoValue]
    /\ statusAge = 0
    /\ MenuInit

---------------------------------------------------------------------------
\* Actions.

\* 'input' on a field, its value now v: clearFieldError(input).  The
\* listener does not look at the value, so v may be the value the field had.
InputEvent(f, v) ==
    /\ value' = [value EXCEPT ![f] = v]
    /\ LET d == clearFieldError(f, Display)
       IN  /\ errorText' = d.text
           /\ fieldError' = d.cls
    /\ errorValue' = [errorValue EXCEPT ![f] = NoValue]
    /\ lastEvent' = Event("input", "none", TRUE)
    /\ UNCHANGED <<status, statusTimers, button, pending, statusAge>>
    /\ UNCHANGED <<menuVars, markup>>

\* The 'blur' listener of a field: validateField(input).
FieldBlurred(f) ==
    /\ LET r == validateField(f, value, Display)
       IN  /\ errorText' = r.disp.text
           /\ fieldError' = r.disp.cls
           /\ errorValue' = ErrorValueAfter({f}, r.disp)
           /\ lastEvent' = Event("blur", f, r.ok)
    /\ UNCHANGED <<value, status, statusTimers, button, pending, statusAge>>

\* 'blur' on a field.
BlurEvent(f) ==
    /\ FieldBlurred(f)
    /\ UNCHANGED <<menuVars, markup>>

\* The focus leaves the element that has it: a form field gets 'blur'.
LeaveFocus ==
    IF focus.kind = "field"
    THEN FieldBlurred(FieldOrder[focus.index])
    ELSE UNCHANGED formVars

\* handleFormSubmit up to its await (or its early return).
handleFormSubmit ==
    LET r == validateAll(value, Display)
    IN  /\ errorText' = r.disp.text
        /\ fieldError' = r.disp.cls
        /\ errorValue' = ErrorValueAfter(Fields, r.disp)
        /\ IF ~r.ok
           THEN /\ status' = showFormStatus(RejectMsg, "error")
                /\ statusTimers' = timersAfterShow(statusTimers)
                /\ lastEvent' = Event("submitRejected", "none", FALSE)
                /\ statusAge' = 0
                /\ UNCHANGED <<button, pending>>
           ELSE /\ pending' = Append(pending, [originalText |-> button.text,
                                               remaining |-> SubmitDelay])
                /\ button' = busyButton(button)
                /\ lastEvent' = Event("submitStarted", "none", TRUE)
                /\ UNCHANGED <<status, statusTimers, statusAge>>
        /\ UNCHANGED value

\* The user asks to submit (a click on the submit control, or Enter in an
\* input, which acts through the form's submit button).  A disabled control
\* gets no click, and the browser dispatches no 'submit'.  Otherwise the
\* click reaches the document's click listener first, which closes the menu
\* (the control is outside navToggle and navMenu), and then 'submit' runs
\* handleFormSubmit.
SubmitRequest ==
    /\ Len(pending) < MaxInFlight
    /\ UNCHANGED markup
    /\ IF button.disabled
       THEN /\ lastEvent' = Event("submitIgnored", "none", TRUE)
            /\ UNCHANGED <<page, errorValue, statusAge>>
            /\ UNCHANGED menuVars
       ELSE /\ Len(statusTimers) + Len(pending) < MaxStatusTimers
            /\ SetMenu(closeMobileMenu(MenuDisplay))
            /\ menuEvent' = MenuEvent("outsideClick", menuActive, FALSE)
            /\ UNCHANGED <<resizeTimers, innerWidth, focus, sinceResize>>
            /\ handleFormSubmit

\* The timer of simulateFormSubmission fires and settles the promise; the
\* rest of handleFormSubmit (try / catch / finally) runs.
Settle(resolved) ==
    /\ pending # << >>
    /\ Head(pending).remaining = 0
    /\ pending' = Tail(pending)
    /\ status' = statusAfterSettle(resolved)
    /\ statusTimers' = timersAfterShow(statusTimers)
    /\ value' = valuesAfterSettle(resolved, value)
    /\ button' = buttonAfterSettle(resolved, button, Head(pending).originalText)
    /\ lastEvent' = Event(IF resolved THEN "resolved" ELSE "rejected", "none", resolved)
    /\ statusAge' = 0
    /\ UNCHANGED <<errorText, fieldError, errorValue>>
    /\ UNCHANGED <<menuVars, markup>>

\* The oldest hide-status timer of showFormStatus is due and fires.
StatusTimerFire ==
    /\ statusTimers # << >>
    /\ Head(statusTimers) = 0
    /\ statusTimers' = Tail(statusTimers)
    /\ status' = [status EXCEPT !.class = StatusHidden]
    /\ lastEvent' = Event("statusTimer", "none", TRUE)
    /\ statusAge' = 0
    /\ UNCHANGED <<value, errorText, fieldError, button, pending, errorValue>>
    /\ UNCHANGED <<menuVars, markup>>

TimerDue ==
    \/ \E i \in 1..Len(statusTimers) : statusTimers[i] = 0
    \/ \E i \in 1..Len(pending) : pending[i].remaining = 0

\* One second passes: no timer is due, and every pending timer comes closer.
Tick ==
    /\ ~TimerDue
    /\ statusTimers # << >> \/ pending # << >>
    /\ statusTimers' = [i \in 1..Len(statusTimers) |-> statusTimers[i] - 1]
    /\ pending' = [i \in 1..Len(pending) |->
                     [pending[i] EXCEPT !.remaining = @ - 1]]
    /\ lastEvent' = Event("tick", "none", TRUE)
    /\ statusAge' = IF status.class = StatusHidden THEN 0
                    ELSE IF statusAge > StatusTTL THEN statusAge
                    ELSE statusAge + 1
    /\ UNCHANGED <<value, errorText, fieldError, status, button, errorValue>>
    /\ UNCHANGED <<menuVars, markup>>

\* The form's events and its clock, in seconds.  No resize is requested
\* here, so the only timers are the form's, and Tick runs them down.
Next ==
    \/ \E f \in Fields : \E v \in TypedValues(f) : InputEvent(f, v)
    \/ \E f \in Fields : BlurEvent(f)
    \/ SubmitRequest
    \/ \E resolved \in BOOLEAN : Settle(resolved)
    \/ StatusTimerFire
    \/ Tick

\* The form's handlers neither read nor write the menu's variables: the form
\* is explored on the narrow window.
InitForm == Init /\ innerWidth = DesktopWidth - 1

Spec == InitForm /\ [][Next]_vars


\* Timers fire when due, time passes, and the submission settles.
FairSpec ==
    /\ Spec
    /\ WF_vars(Tick)
    /\ WF_vars(\E resolved \in BOOLEAN : Settle(resolved))
    /\ WF_vars(StatusTimerFire)

---------------------------------------------------------------------------
\* The validation specification: validateField applied to one field holding
\* any of the input strings, the other fields left at their default.

Alphabet == {"a", "@", ".", " "}
AllStrings == UNION {[1..k -> Alphabet] : k \in 0..MaxLen}
Letters(n) == [i \in 1..n |-> "a"]
\* Nothing, each white space character alone, and two runs of them.
Pads ==
    { << >>, <<"\n", " ">>, <<"\r", "\n", " ">> } \cup {<<w>> : w \in WhiteSpace}
PaddedStrings == {l \o Letters(n) \o r : l \in Pads, r \in Pads, n \in 0..MaxBody}
\* s with the character c put in before position i.
InsertAt(s, i, c) == SubSeq(s, 1, i - 1) \o <<c>> \o SubSeq(s, i, Len(s))
\* 'a@b.c' and 'Al' with one white space character at every place.
BlankInsertedStrings ==
    UNION {{InsertAt(s, i, w) : i \in 1..(Len(s) + 1), w \in WhiteSpace} :
              s \in {<<"a", "@", "b", ".", "c">>, <<"A", "l">>}}
ExampleStrings ==
    { <<"a", "@", "b", ".", "c">>,
      <<"n", "o", "t", "-", "a", "n", "-", "e", "m", "a", "i", "l">>,
      <<"A", "l">>,
      <<"A">>,
      <<"A", "﻿">>,
      <<"", "A">> }
InputStrings ==
    AllStrings \cup PaddedStrings \cup BlankInsertedStrings \cup ExampleStrings

InitValidate ==
    /\ PlainMarkup
    /\ \E f \in Fields : \E s \in InputStrings :
          value = [g \in Fields |-> IF g = f THEN s ELSE defaultValue[g]]
    /\ errorText = [f \in Fields |-> ""]
    /\ fieldError = [f \in Fields |-> FALSE]
    /\ status = [text |-> "", class |-> StatusHidden]
    /\ statusTimers = << >>
    /\ button = [loading |-> FALSE, disabled |-> FALSE, text |-> loadLabel]
    /\ pending = << >>
    /\ lastEvent = Event("load", "none", TRUE)
    /\ errorValue = [f \in Fields |-> NoValue]
    /\ statusAge = 0
    /\ MenuInit
    /\ innerWidth = DesktopWidth - 1

NextValidate == \E f \in Fields : BlurEvent(f)

SpecValidate == InitValidate /\ [][NextValidate]_vars

---------------------------------------------------------------------------
\* The menu's actions.

\* A click on navToggle: toggleMobileMenu (the document's click listener
\* does nothing, the target being inside navToggle).
ToggleClick ==
    /\ SetMenu(toggleMobileMenu(MenuDisplay))
    /\ menuEvent' = MenuEvent("toggle", menuActive, FALSE)
    /\ UNCHANGED <<resizeTimers, innerWidth, focus, sinceResize>>
    /\ UNCHANGED <<formVars, markup>>

\* A click on a nav link: closeMobileMenu (and handleSmoothScroll).
NavLinkClick ==
    /\ SetMenu(closeMobileMenu(MenuDisplay))
    /\ menuEvent' = MenuEvent("navLink", menuActive, FALSE)
    /\ UNCHANGED <<resizeTimers, innerWidth, focus, sinceResize>>
    /\ UNCHANGED <<formVars, markup>>

\* A click outside navToggle and navMenu: closeMobileMenu.
OutsideClick ==
    /\ SetMenu(closeMobileMenu(MenuDisplay))
    /\ menuEvent' = MenuEvent("outsideClick", menuActive, FALSE)
    /\ UNCHANGED <<resizeTimers, innerWidth, focus, sinceResize>>
    /\ UNCHANGED <<formVars, markup>>

\* keydown with key 'Escape': closes an active menu and focuses navToggle,
\* which takes the focus from a form field that had it.
EscapeKey ==
    /\ IF menuActive
       THEN /\ SetMenu(closeMobileMenu(MenuDisplay))
            /\ focus' = ToggleFocus
            /\ LeaveFocus
       ELSE /\ UNCHANGED <<ariaExpanded, menuActive, bodyOverflow, focus>>
            /\ UNCHANGED formVars
    /\ menuEvent' = MenuEvent("escape", menuActive, FALSE)
    /\ UNCHANGED <<resizeTimers, innerWidth, sinceResize>>
    /\ UNCHANGED markup

\* keydown with key 'Tab' inside navMenu, a link of the menu being focused.
TabKey(shiftKey) ==
    /\ focus.kind = "link"
    /\ focus' = handleTabNavigation(shiftKey, focus.index)
    /\ menuEvent' = MenuEvent("tab", menuActive, shiftKey)
    /\ UNCHANGED <<ariaExpanded, menuActive, bodyOverflow, resizeTimers,
                   innerWidth, sinceResize>>
    /\ UNCHANGED <<formVars, markup>>

\* The user moves the focus by other means (the press of a pointer, before
\* its click; Tab outside the menu): a form field that had it gets 'blur'.
FocusMove(target) ==
    /\ target # focus
    /\ focus' = target
    /\ LeaveFocus
    /\ menuEvent' = MenuEvent("focus", menuActive, FALSE)
    /\ UNCHANGED <<ariaExpanded, menuActive, bodyOverflow, resizeTimers,
                   innerWidth, sinceResize>>
    /\ UNCHANGED markup

\* 'resize' with the window now w wide: clearTimeout, then setTimeout.
ResizeEvent(w) ==
    /\ Cardinality(resizeTimers) < MaxResizeTimers
    /\ innerWidth' = w
    /\ resizeTimers' = clearResizeTimer(resizeTimers) \cup {ResizeDelay}
    /\ sinceResize' = 0
    /\ menuEvent' = MenuEvent("resize", menuActive, FALSE)
    /\ UNCHANGED <<ariaExpanded, menuActive, bodyOverflow, focus>>
    /\ UNCHANGED <<formVars, markup>>

\* A resize timer fires: the close-menu check.
ResizeTimerFire ==
    /\ 0 \in resizeTimers
    /\ resizeTimers' = resizeTimers \ {0}
    /\ SetMenu(resizeCheck(innerWidth, MenuDisplay))
    /\ menuEvent' = MenuEvent("resizeCheck", menuActive, FALSE)
    /\ UNCHANGED <<innerWidth, focus, sinceResize>>
    /\ UNCHANGED <<formVars, markup>>

\* Time passes for the menu: TickMs milliseconds, or what is left of the
\* timer due first.
MenuTick ==
    /\ resizeTimers # {}
    /\ 0 \notin resizeTimers
    /\ LET soonest == CHOOSE t \in resizeTimers : \A u \in resizeTimers : t <= u
           step == IF soonest < TickMs THEN soonest ELSE TickMs
       IN  /\ resizeTimers' = {t - step : t \in resizeTimers}
           /\ sinceResize' = IF sinceResize + step > ResizeDelay THEN ResizeDelay
                             ELSE sinceResize + step
    /\ menuEvent' = MenuEvent("tick", menuActive, FALSE)
    /\ UNCHANGED <<ariaExpanded, menuActive, bodyOverflow, innerWidth, focus>>
    /\ UNCHANGED <<formVars, markup>>

\* The menu's events and its clock, in milliseconds, and the focus changes
\* that run a field's validation.  No submission is requested here, so no
\* timer of the form is pending: the only timers are the resize timers,
\* and MenuTick runs them down.
NextMenu ==
    \/ ToggleClick
    \/ NavLinkClick
    \/ OutsideClick
    \/ EscapeKey
    \/ \E shiftKey \in BOOLEAN : TabKey(shiftKey)
    \/ \E target \in FocusTargets : FocusMove(target)
    \/ \E w \in Widths : ResizeEvent(w)
    \/ ResizeTimerFire
    \/ MenuTick

SpecMenu == Init /\ [][NextMenu]_vars


---------------------------------------------------------------------------
\* Properties of the submission controller.

\* The busy state of the submit control, and the control at rest.
BusySet == button.disabled /\ button.loading
BusyClear == ~button.disabled /\ ~button.loading
Idle == pending = << >> /\ BusyClear

SubmitOps == {"submitStarted", "submitRejected"}
SettleOps == {"resolved", "rejected"}

\* C1: every submit attempt returns the controller to Idle with the busy
\* state cleared: a rejected attempt at once, and an attempt that entered
\* Submitting once the submission action settles, resolved or rejected; the
\* submit control is never left disabled or loading forever.
C1_EveryAttemptReturnsToIdle ==
    /\ [](lastEvent.op = "submitRejected" => Idle)
    /\ [](lastEvent.op \in SettleOps => Idle)
    /\ (~Idle ~> Idle)

C1_Witness == lastEvent.op = "rejected" /\ Idle

\* C2: the submission action is invoked only when every field passed the
\* validation pass of that submit request; if a field is invalid no
\* submission starts, the submit control does not enter the busy state, and
\* the status shows 'Please correct the errors above.' as an error.
C2_SubmissionGatedByValidation ==
    [][ /\ Len(pending') > Len(pending) =>
              /\ \A f \in Fields : fieldErrorMessage(f, value[f]) = ""
              /\ \A f \in Fields : errorText'[f] = "" /\ ~fieldError'[f]
        /\ lastEvent'.op \in SubmitOps =>
              IF \A f \in Fields : fieldErrorMessage(f, value[f]) = ""
              THEN lastEvent'.op = "submitStarted" /\ pending' # pending
              ELSE /\ lastEvent'.op = "submitRejected"
                   /\ pending' = pending
                   /\ button' = button
                   /\ ~button'.disabled /\ ~button'.loading
                   /\ status' = [text |-> "Please correct the errors above.",
                                 class |-> "form-status error"]
      ]_vars

C2_Witness ==
    /\ lastEvent.op = "submitRejected"
    /\ \E f \in Fields : errorText[f] # ""
    /\ \E f \in Fields : errorText[f] = ""
    /\ status.class = "form-status error"
    /\ BusyClear

\* C3: a new submission attempt cannot start while the busy flag is set: at
\* most one submission action is in flight, and a submit request that
\* arrives while the control is busy changes nothing on the page.
C3_OneSubmissionInFlight ==
    /\ [](Len(pending) <= 1)
    /\ [](pending # << >> => BusySet)
    /\ [][ /\ (BusySet /\ lastEvent'.op \in SubmitOps \cup {"submitIgnored"})
                 => lastEvent'.op = "submitIgnored"
           /\ lastEvent'.op = "submitIgnored" => page' = page
         ]_vars

C3_Witness ==
    lastEvent.op = "submitIgnored" /\ Len(pending) = 1 /\ BusySet

\* C4: for each submit attempt on a fully valid form the busy state is
\* entered exactly once, when the attempt starts, and cleared exactly once,
\* when its submission action settles (resolved or rejected); nothing else
\* enters or clears it.
C4_BusyEnteredAndClearedOnce ==
    [][ /\ lastEvent'.op = "submitStarted" => BusyClear /\ BusySet'
        /\ lastEvent'.op \in SettleOps =>
              BusySet /\ BusyClear' /\ pending # << >> /\ pending' = Tail(pending)
        /\ (BusySet' # BusySet \/ BusyClear' # BusyClear) =>
              lastEvent'.op \in {"submitStarted"} \cup SettleOps
        /\ (BusySet \/ BusyClear) /\ (BusySet' \/ BusyClear')
      ]_vars

C4_Witness ==
    lastEvent.op = "resolved" /\ BusyClear /\ pending = << >>

\* C5: no stale field error stays visible after the field's value changes:
\* a field whose error slot is non-empty holds the value it held when
\* validateField produced that error.
C5_NoStaleFieldError ==
    \A f \in Fields : errorText[f] # "" => value[f] = errorValue[f]

\* C6: when the submission action resolves, all field values are empty right
\* afterwards, whatever was typed or validated while it was in flight, and
\* the status shows the success message classified as success.
C6_SuccessClearsFields ==
    lastEvent.op = "resolved" =>
        /\ \A f \in Fields : value[f] = << >>
        /\ status = [text |-> "Thank you! Your message has been sent successfully.",
                     class |-> "form-status success"]

\* A submission resolved after a field was validated, and refused, while it
\* was in flight: the fields are empty and the status is the success message.
C6_Witness ==
    /\ lastEvent.op = "resolved"
    /\ \E f \in Fields : errorText[f] # ""
    /\ \A f \in Fields : value[f] = << >>
    /\ status.class = "form-status success"

\* C7: when the submission action fails, handling the failure leaves every
\* field value unchanged and the status shows the generic failure message
\* classified as an error, never the success message.
C7_FailurePreservesFields ==
    [][ lastEvent'.op = "rejected" =>
            /\ value' = value
            /\ status'.text =
                 "Sorry, there was an error sending your message. Please try again."
            /\ status'.class = "form-status error"
            /\ status'.text # SuccessMsg
      ]_vars

C7_Witness ==
    /\ lastEvent.op = "rejected"
    /\ \A f \in Fields : value[f] # << >>
    /\ status.class = "form-status error"

\* C8: the validation pass of a submit request runs validateField on every
\* field, also after an earlier field failed, and its result is the AND of
\* the per-field results: afterwards every field's error slot and error class
\* show that field's own validity.
C8_ValidateAllCoversEveryField ==
    lastEvent.op \in SubmitOps =>
        /\ \A f \in Fields :
              /\ errorText[f] = fieldErrorMessage(f, value[f])
              /\ fieldError[f] = (fieldErrorMessage(f, value[f]) # "")
        /\ lastEvent.ok = (\A f \in Fields : fieldErrorMessage(f, value[f]) = "")
        /\ lastEvent.ok = (lastEvent.op = "submitStarted")

\* One invalid field and two valid ones.
C8_Witness ==
    /\ lastEvent.op = "submitRejected"
    /\ Cardinality({f \in Fields : errorText[f] # ""}) = 1
    /\ Cardinality({f \in Fields : trimStart(value[f]) # << >>}) = 3


---------------------------------------------------------------------------
\* Properties of validateField, stated without the model's trim and pattern.

\* White space, by code point: U+0020, U+0009, U+000A, U+000C, U+000D,
\* U+000B, U+00A0, U+1680, U+FEFF, the spaces U+2000 to U+200A, the line
\* and paragraph separators, U+202F, U+205F and U+3000.
BlankCharacters ==
    {" ", "\t", "\n", "\f", "\r", "", " ", " ", "﻿"}
    \cup {"<U+200" \o d \o ">" :
              d \in {"0", "1", "2", "3", "4", "5", "6", "7", "8", "9", "A"}}
    \cup {"<U+2028>", "<U+2029>", "<U+202F>", "<U+205F>", "<U+3000>"}

Blank(s) == \A i \in 1..Len(s) : s[i] \in BlankCharacters

\* The text between the first and the last non-blank character.
Core(s) ==
    LET keep == {i \in 1..Len(s) : s[i] \notin BlankCharacters}
    IN  IF keep = {} THEN << >>
        ELSE LET lo == CHOOSE i \in keep : \A j \in keep : i <= j
                 hi == CHOOSE i \in keep : \A j \in keep : j <= i
             IN  SubSeq(s, lo, hi)

RequiredMessage(f) ==
    CASE f = "name" -> "Name is required."
      [] f = "email" -> "Email is required."
      [] f = "message" -> "Message is required."

\* local@domain.tld: no blank, exactly one '@', and after it a '.' with a
\* non-empty part on each side.
EmailShape(s) ==
    /\ \A i \in 1..Len(s) : s[i] \notin BlankCharacters
    /\ Cardinality({i \in 1..Len(s) : s[i] = "@"}) = 1
    /\ \E at \in 1..Len(s) : \E dot \in 1..Len(s) :
          /\ s[at] = "@"
          /\ s[dot] = "."
          /\ 1 < at
          /\ at + 1 < dot
          /\ dot < Len(s)

FieldConstraint(f, s) ==
    CASE f = "name" -> Len(s) >= 2
      [] f = "message" -> Len(s) >= 10
      [] f = "email" -> EmailShape(s)

\* C9: for every field, validateField on an empty or whitespace-only value
\* returns false and records '<Label> is required.', never the format or
\* minimum-length message.
C9_BlankValueIsRequiredError ==
    \A f \in Fields :
        (lastEvent.op = "blur" /\ lastEvent.field = f /\ Blank(value[f])) =>
            /\ ~lastEvent.ok
            /\ errorText[f] = RequiredMessage(f)
            /\ fieldError[f]

C9_Witness ==
    /\ lastEvent.op = "blur"
    /\ lastEvent.field = "message"
    /\ value["message"] = <<"\r", "\n", " ">>
    /\ errorText["message"] = "Message is required."

\* C10: for a value that is not blank, validateField returns true exactly
\* when the field's constraint holds on the trimmed value (name: length >= 2;
\* message: length >= 10; email: the shape local@domain.tld), and an email
\* of another shape gets the email-format message.
C10_FieldConstraintDecides ==
    \A f \in Fields :
        (lastEvent.op = "blur" /\ lastEvent.field = f /\ ~Blank(value[f])) =>
            /\ lastEvent.ok = FieldConstraint(f, Core(value[f]))
            /\ lastEvent.ok = (errorText[f] = "")
            /\ (f = "email" /\ ~lastEvent.ok) =>
                  errorText[f] = "Please enter a valid email address."
            /\ (f = "name" /\ ~lastEvent.ok) =>
                  errorText[f] = "Name must be at least 2 characters long."
            /\ (f = "message" /\ ~lastEvent.ok) =>
                  errorText[f] = "Message must be at least 10 characters long."

\* 'not-an-email' was validated as an email and refused.
C10_Witness ==
    /\ lastEvent.op = "blur"
    /\ lastEvent.field = "email"
    /\ value["email"] = <<"n", "o", "t", "-", "a", "n", "-", "e", "m", "a", "i", "l">>
    /\ errorText["email"] = "Please enter a valid email address."


---------------------------------------------------------------------------
\* Properties of the status banner and of the control at rest.

StatusVisible == status.class # "form-status"

\* C11: every status message shown is hidden no later than 5 seconds after
\* it was shown, with no further user action and whether or not a new
\* submission started meanwhile: while it is visible its own timer is
\* pending and due 5 seconds after the show, no pending timer is ever
\* cancelled, and a visible status is eventually hidden.
C11_StatusHiddenWithinTTL ==
    /\ [](StatusVisible =>
            /\ statusAge <= 5
            /\ \E i \in 1..Len(statusTimers) : statusTimers[i] = 5 - statusAge)
    /\ [][ \/ /\ Len(statusTimers') >= Len(statusTimers)
              /\ \A i \in 1..Len(statusTimers) :
                    statusTimers'[i] \in {statusTimers[i], statusTimers[i] - 1}
           \/ /\ statusTimers # << >>
              /\ Head(statusTimers) = 0
              /\ statusTimers' = Tail(statusTimers)
              /\ ~StatusVisible'
         ]_vars
    /\ (StatusVisible ~> ~StatusVisible)

\* A timer hid the status while a later submission was in flight.
C11_Witness ==
    /\ lastEvent.op = "statusTimer"
    /\ ~StatusVisible
    /\ pending # << >>

\* C12: whenever no submission is in flight the submit control is enabled,
\* without the 'loading' class, and shows its page-load label; the cleanup
\* after a settled attempt never leaves the pending label.
C12_ControlRestoredAtRest ==
    /\ pending = << >> =>
          button = [loading |-> FALSE, disabled |-> FALSE, text |-> loadLabel]
    /\ lastEvent.op \in SettleOps => button.text # "Sending..."

\* The page whose control is labelled 'Send', after a failed attempt.
C12_Witness ==
    /\ lastEvent.op = "rejected"
    /\ pending = << >>
    /\ button.text = "Send"
    /\ status.text = FailureMsg

KnownFieldMessages ==
    { "Name is required.", "Email is required.", "Message is required.",
      "Please enter a valid email address.",
      "Name must be at least 2 characters long.",
      "Message must be at least 10 characters long." }

\* C13: validateField(f) records at most one message for f and its result
\* agrees with the display: afterwards f's error slot is non-empty and f
\* carries the 'error' class exactly when it returned false, a prior message
\* of f is gone when it returned true, and the slots and classes of the
\* other fields are unchanged, also on a blur while a submission is in
\* flight.
C13_ValidateFieldFrame ==
    [][ lastEvent'.op = "blur" =>
          LET f == lastEvent'.field
          IN  /\ (errorText'[f] # "") = ~lastEvent'.ok
              /\ fieldError'[f] = ~lastEvent'.ok
              /\ errorText'[f] \in KnownFieldMessages \cup {""}
              /\ \A g \in Fields \ {f} :
                    errorText'[g] = errorText[g] /\ fieldError'[g] = fieldError[g]
              /\ <<value, status, statusTimers, button, pending>>' =
                    <<value, status, statusTimers, button, pending>>
      ]_vars

\* A blur during the in-flight wait refused its field while another field
\* kept the error it had.
C13_Witness ==
    /\ lastEvent.op = "blur"
    /\ ~lastEvent.ok
    /\ pending # << >>
    /\ \E g \in Fields \ {lastEvent.field} : errorText[g] # ""

\* C14: a status message stays visible for its full TTL: the status loses
\* its 'error' / 'success' class only 5 seconds after the call that showed
\* the message now displayed; the pending timer of an earlier message never
\* hides a later message early.
C14_StatusVisibleForFullTTL ==
    [][ (StatusVisible /\ ~StatusVisible') => statusAge = 5 ]_vars


---------------------------------------------------------------------------
\* Properties of the mobile menu.

CloseTriggers == {"navLink", "outsideClick", "escape"}

\* C15: the menu's three state carriers always agree: from a closed menu,
\* after any sequence of toggle clicks, nav-link clicks, outside clicks,
\* Escape presses and resize callbacks, aria-expanded is 'true' exactly when
\* the menu has the 'active' class exactly when the body's overflow is
\* 'hidden'; and after a close trigger (a nav-link click, an outside click,
\* Escape, a resize callback on a window at least 768 wide) the menu is closed.
C15_MenuCarriersAgree ==
    /\ ariaExpanded \in {"true", "false"}
    /\ bodyOverflow \in {"hidden", ""}
    /\ (ariaExpanded = "true") = menuActive
    /\ menuActive = (bodyOverflow = "hidden")
    /\ menuEvent.op \in CloseTriggers => ~menuActive
    /\ (menuEvent.op = "resizeCheck" /\ innerWidth >= 768) => ~menuActive

\* Escape closed an open menu and gave the focus to the toggle.
C15_Witness ==
    /\ menuEvent.op = "escape"
    /\ menuEvent.wasActive
    /\ ariaExpanded = "false" /\ ~menuActive /\ bodyOverflow = ""
    /\ focus.kind = "toggle"

\* C16: the resize handler is debounced: at most one resize timer is pending
\* at any time, each resize event leaves exactly one timer, due 250 ms later,
\* the close-menu check runs only 250 ms after the last resize event and
\* leaves no timer behind, and it closes the menu only if the window is at
\* least 768 wide and the menu is active at that moment.
C16_ResizeDebounced ==
    /\ [](Cardinality(resizeTimers) <= 1)
    /\ [][ /\ menuEvent'.op = "resize" => resizeTimers' = {250}
           /\ menuEvent'.op = "resizeCheck" =>
                 /\ sinceResize >= 250
                 /\ resizeTimers' = {}
                 /\ IF innerWidth >= 768 /\ menuActive
                    THEN ~menuActive' /\ ariaExpanded' = "false" /\ bodyOverflow' = ""
                    ELSE <<ariaExpanded, menuActive, bodyOverflow>>' =
                            <<ariaExpanded, menuActive, bodyOverflow>>
           /\ (resizeTimers' # resizeTimers) =>
                 menuEvent'.op \in {"resize", "resizeCheck", "tick"}
         ]_vars

\* The check closed a menu that was active on a wide window.
C16_Witness ==
    /\ menuEvent.op = "resizeCheck"
    /\ menuEvent.wasActive
    /\ ~menuActive
    /\ innerWidth >= 768
    /\ resizeTimers = {}

\* C17: Tab navigation is trapped inside the menu: with a link of the menu
\* focused, Tab on the last link moves the focus to the first, Shift+Tab on
\* the first link moves it to the last, any other press moves it to the
\* neighbouring link, so the focus stays on one of the menu's links.
C17_TabTrappedInMenu ==
    [][ (menuEvent'.op = "tab" /\ focus.kind = "link") =>
          /\ focus'.kind = "link"
          /\ focus'.index \in 1..NumLinks
          /\ focus'.index =
               IF menuEvent'.shiftKey
               THEN (IF focus.index = 1 THEN NumLinks ELSE focus.index - 1)
               ELSE (IF focus.index = NumLinks THEN 1 ELSE focus.index + 1)
      ]_vars

\* Tab reached the first link, which only the wrap from the last link does.
C17_Witness ==
    /\ menuEvent.op = "tab"
    /\ ~menuEvent.shiftKey
    /\ focus = [kind |-> "link", index |-> 1]

=============================================================================
